---- MODULE Spec2Model ----
(***************************************************************************)
(* The Suspicious Voter Monitoring dashboard (UI.py).  The program is one  *)
(* Streamlit script: every user interaction (uploading or removing the     *)
(* file, changing one of the two select boxes, any other widget event)     *)
(* runs the script from its first line to its last, or to the line that    *)
(* raises.  The state between runs is the uploaded file and the values of  *)
(* the two select boxes; a run produces the page, a sequence of rendered   *)
(* elements in script order.                                               *)
(*                                                                         *)
(* Python values are modelled as follows.  None is the empty tuple and a   *)
(* present value v is <<v>>.  A DataFrame is the sequence of its rows, a   *)
(* row a record of its cells.  A string built by an f-string or by         *)
(* str.join is the sequence of its pieces (literal text and formatted      *)
(* cells), so that joining is concatenation with the separator in between. *)
(* The uploaded CSV is taken to have the seven expected columns with a     *)
(* value in every cell (the precondition of the ingestion step).  Whether  *)
(* an image loads is decided by its path.                                  *)
(***************************************************************************)
EXTENDS Integers, Sequences, FiniteSets, TLC

VARIABLES uploaded_file, fraud_categories, suspicious_type, selected_voter,
          page, exception

vars == <<uploaded_file, fraud_categories, suspicious_type, selected_voter,
          page, exception>>

(***************************************************************************)
(* Bounds of the explored inputs.                                          *)
(***************************************************************************)
MaxRows == 2
MaxDetailRows == 2

VoterIds == {0, 1}
ConstituencyOrder == <<"X", "Y">>
FraudTypeOrder == <<"cross_constituency_voting", "double_voting", "legitimate",
                    "same_constituency_identity_theft", "unknown">>
ClaimedIds == {1, 2}
ImagePaths == {"a.png", "b.png"}

(* The image paths st.image cannot load. *)
Unreadable == {"b.png"}

None == <<>>
Some(v) == <<v>>

Range(s) == {s[i] : i \in DOMAIN s}

Constituencies == Range(ConstituencyOrder)
FraudTypes == Range(FraudTypeOrder)

(* The (fraud_type, is_suspicious) pairs of the core rows: the four pairs in
   which the flag agrees with the label, a flagged row without a fraud label
   and a fraud label without the flag. *)
Labels ==
  { <<"legitimate", FALSE>>, <<"same_constituency_identity_theft", TRUE>>,
    <<"cross_constituency_voting", TRUE>>, <<"double_voting", TRUE>>,
    <<"legitimate", TRUE>>, <<"double_voting", FALSE>> }

(* Rows that vary the cells the categories and aggregations read. *)
CoreRows ==
  {[voter_id |-> v, claimed_voter_id |-> 1, registered_constituency |-> "X",
    voting_constituency |-> c, image_path |-> "a.png",
    fraud_type |-> l[1], is_suspicious |-> l[2]] :
     v \in VoterIds, c \in Constituencies, l \in Labels}

(* Flagged rows of one voter that vary the cells the detail view reads: the
   fraud type, the cells its reason clause formats (the cells no clause of the
   row reads keep one value) and the image path. *)
DetailRows ==
  {r \in [voter_id : {1}, claimed_voter_id : ClaimedIds,
          registered_constituency : Constituencies,
          voting_constituency : Constituencies,
          image_path : ImagePaths, fraud_type : FraudTypes, is_suspicious : {TRUE}] :
     /\ r.fraud_type # "same_constituency_identity_theft" => r.claimed_voter_id = 1
     /\ r.fraud_type # "cross_constituency_voting" =>
          r.registered_constituency = "X" /\ r.voting_constituency = "X"}

SeqsUpTo(S, n) == UNION {[1..k -> S] : k \in 0..n}

Tables == SeqsUpTo(CoreRows, MaxRows) \cup SeqsUpTo(DetailRows, MaxDetailRows)

(***************************************************************************)
(* pandas and Python primitives the script uses.                           *)
(***************************************************************************)
Digits == <<"0", "1", "2", "3", "4", "5", "6", "7", "8", "9">>

(* str() of a small non-negative integer, as one piece of text. *)
str(n) == Digits[n + 1]

(* Series.unique(): the distinct values in order of first appearance. *)
unique(s) ==
  LET F[i \in 0..Len(s)] ==
        IF i = 0 THEN <<>>
        ELSE IF s[i] \in Range(F[i - 1]) THEN F[i - 1] ELSE Append(F[i - 1], s[i])
  IN F[Len(s)]

(* df[column] *)
Column(df, c) == [i \in 1..Len(df) |-> df[i][c]]

(* sorted() of a list of integers. *)
sorted(s) == SortSeq(s, LAMBDA a, b : a < b)

(* sep.join(parts), each part a sequence of pieces. *)
RECURSIVE join(_, _)
join(sep, parts) ==
  IF parts = <<>> THEN <<>>
  ELSE IF Len(parts) = 1 THEN parts[1]
  ELSE parts[1] \o <<sep>> \o join(sep, Tail(parts))

(* The members of an ordered domain that occur in S, in ascending order. *)
SortedSubset(order, S) ==
  LET In(x) == x \in S IN SelectSeq(order, In)

(* bool(v) of a select box's value: None is false, and so is the integer 0. *)
Truthy(v) == v # None /\ v[1] # 0

(* bool(v) of a select box's value that is None or a non-empty string. *)
TruthyStr(v) == v # None

(***************************************************************************)
(* Rendered elements.  `in` is the container the element is written to,    *)
(* `label` its fixed text and `data` what the run computed for it.         *)
(***************************************************************************)
E(kind, in, label, data) == [kind |-> kind, in |-> in, label |-> label, data |-> data]

(* df[df[column] == value] *)
WhereEq(df, c, v) ==
  LET Hit(r) == r[c] = v IN SelectSeq(df, Hit)

(* DetectFraudCategories with the "Double Voting" list filtered on the label
   of the line above it. *)
DetectFraudCategoriesCopied(df) ==
  << [key |-> "Same Constituency Identity Theft",
      value |-> unique(Column(WhereEq(df, "fraud_type", "same_constituency_identity_theft"), "voter_id"))],
     [key |-> "Cross-Constituency Voting",
      value |-> unique(Column(WhereEq(df, "fraud_type", "cross_constituency_voting"), "voter_id"))],
     [key |-> "Double Voting",
      value |-> unique(Column(WhereEq(df, "fraud_type", "cross_constituency_voting"), "voter_id"))],
     [key |-> "All Suspicious Voters",
      value |-> unique(Column(WhereEq(df, "is_suspicious", TRUE), "voter_id"))] >>

(***************************************************************************)
(* Detect suspicious voters by fraud type: the dict of the four voter      *)
(* lists, in insertion order.                                              *)
(***************************************************************************)
DetectFraudCategories(df) ==
  << [key |-> "Same Constituency Identity Theft",
      value |-> unique(Column(WhereEq(df, "fraud_type", "same_constituency_identity_theft"), "voter_id"))],
     [key |-> "Cross-Constituency Voting",
      value |-> unique(Column(WhereEq(df, "fraud_type", "cross_constituency_voting"), "voter_id"))],
     [key |-> "Double Voting",
      value |-> unique(Column(WhereEq(df, "fraud_type", "double_voting"), "voter_id"))],
     [key |-> "All Suspicious Voters",
      value |-> unique(Column(WhereEq(df, "is_suspicious", TRUE), "voter_id"))] >>

(* active_categories with the test len(v) >= 0. *)
active_categories_all(cats) ==
  LET Kept(kv) == Len(kv.value) >= 0 IN SelectSeq(cats, Kept)

(* Filter out categories with no voters. *)
active_categories(cats) ==
  LET NonEmpty(kv) == Len(kv.value) > 0 IN SelectSeq(cats, NonEmpty)

(* list(d.keys()) and d[key] of a dict kept as a sequence of items. *)
Keys(d) == [i \in 1..Len(d) |-> d[i].key]
Lookup(d, k) == LET Is(kv) == kv.key = k IN SelectSeq(d, Is)[1].value

(* st.selectbox: the user's choice when it is one of the options, otherwise
   the first option, and None when there are no options. *)
selectbox(options, choice) ==
  IF choice # None /\ choice[1] \in Range(options) THEN choice
  ELSE IF options = <<>> THEN None
  ELSE Some(options[1])

(***************************************************************************)
(* Page head and upload section (lines 15-22).                             *)
(***************************************************************************)
UploadSection(file) ==
  << E("title", "main", "Suspicious Voter Monitoring System", None),
     E("markdown", "main", "---", None),
     E("subheader", "main", "Upload Suspicious Votes File", None),
     E("file_uploader", "main", "Upload CSV file", file # None) >>

(* The else branch left out. *)
UploadPromptMissing == <<>>

(* The else branch: no file uploaded. *)
UploadPrompt ==
  << E("info", "main", "Please upload a CSV file to begin analysis", None) >>

(* pd.read_csv of the uploaded file: the table of its rows. *)
read_csv(file) == file[1]

(***************************************************************************)
(* Summary statistics (lines 25-66).                                       *)
(***************************************************************************)
(* round-half-even of num/den, den > 0, as format(x, ".1f") rounds. *)
RoundHalfEven(num, den) ==
  LET q == num \div den
      r == num % den
  IN IF 2 * r < den THEN q
     ELSE IF 2 * r > den THEN q + 1
     ELSE IF q % 2 = 0 THEN q ELSE q + 1

(* The four metrics rendered before the fraud rate is computed. *)
CountMetrics(df) ==
  << E("success", "main", "File uploaded successfully!", None),
     E("write", "main", "", None),
     E("subheader", "main", "Overview Statistics", None),
     E("metric", "col1", "Total Votes", Len(df)),
     E("metric", "col2", "Legitimate Votes", Len(WhereEq(df, "fraud_type", "legitimate"))),
     E("metric", "col3", "Suspicious Votes", Len(WhereEq(df, "is_suspicious", TRUE))),
     E("metric", "col4", "Unique Voters", Cardinality(Range(Column(df, "voter_id")))) >>

(* len(suspicious) / len(df) raises ZeroDivisionError on a table of no rows. *)
FraudRateRaises(df) == Len(df) = 0

(* fraud_rate formatted to one decimal place, in tenths of a percent. *)
fraud_rate(df) == RoundHalfEven(Len(WhereEq(df, "is_suspicious", TRUE)) * 1000, Len(df))

FraudRateMetric(df) ==
  << E("metric", "col5", "Fraud Rate", fraud_rate(df)),
     E("markdown", "main", "---", None) >>

(***************************************************************************)
(* Left column: category and voter select boxes, the voter's detail table  *)
(* and the image gallery (lines 75-136).                                   *)
(***************************************************************************)
(* fraud_reason with the two constituencies of the second clause swapped. *)
fraud_reason_swapped(row) ==
  LET r1 == IF row.fraud_type = "same_constituency_identity_theft"
            THEN << <<"Identity theft: Claims to be ", str(row.claimed_voter_id)>> >>
            ELSE <<>>
      r2 == IF row.fraud_type = "cross_constituency_voting"
            THEN << <<"Voting in wrong constituency: Registered in ",
                      row.voting_constituency, ", voting in ",
                      row.registered_constituency>> >>
            ELSE <<>>
      r3 == IF row.fraud_type = "double_voting"
            THEN << <<"Multiple voting attempts detected">> >>
            ELSE <<>>
      reasons == r1 \o r2 \o r3
  IN IF reasons # <<>> THEN join("; ", reasons) ELSE <<"Legitimate">>

(* The reason column of one row: the clauses whose test passes, joined
   with "; ", or "Legitimate" when no test passes. *)
fraud_reason(row) ==
  LET r1 == IF row.fraud_type = "same_constituency_identity_theft"
            THEN << <<"Identity theft: Claims to be ", str(row.claimed_voter_id)>> >>
            ELSE <<>>
      r2 == IF row.fraud_type = "cross_constituency_voting"
            THEN << <<"Voting in wrong constituency: Registered in ",
                      row.registered_constituency, ", voting in ",
                      row.voting_constituency>> >>
            ELSE <<>>
      r3 == IF row.fraud_type = "double_voting"
            THEN << <<"Multiple voting attempts detected">> >>
            ELSE <<>>
      reasons == r1 \o r2 \o r3
  IN IF reasons # <<>> THEN join("; ", reasons) ELSE <<"Legitimate">>

(* One row of the displayed detail table: the selected columns, the reason
   column added and is_suspicious left out. *)
DisplayRow(row) ==
  [image_path |-> row.image_path,
   registered_constituency |-> row.registered_constituency,
   voting_constituency |-> row.voting_constituency,
   claimed_voter_id |-> row.claimed_voter_id,
   fraud_type |-> row.fraud_type,
   fraud_reason |-> fraud_reason(row)]

display_df(voter_data) == [i \in 1..Len(voter_data) |-> DisplayRow(voter_data[i])]

(* st.image raises for a path it cannot load. *)
ImageRaises(path) == path \in Unreadable

(* One pass of the gallery loop, i counted from 1: st.image in column
   (i - 1) % 4, or st.error when loading the image raised. *)
GalleryItem(voter_data, i) ==
  IF ImageRaises(voter_data[i].image_path)
  THEN E("error", <<"img_cols", (i - 1) % 4>>, "Cannot load image: ", voter_data[i].image_path)
  ELSE E("image", <<"img_cols", (i - 1) % 4>>, "Image ", [path |-> voter_data[i].image_path, caption |-> i])

(* The gallery loop without the try: the first image that fails ends it. *)
FaceImagesNoTry(voter_data) ==
  LET bad == {i \in 1..Len(voter_data) : ImageRaises(voter_data[i].image_path)}
      stop == IF bad = {} THEN Len(voter_data)
              ELSE (CHOOSE i \in bad : \A j \in bad : i <= j) - 1
  IN << E("subheader", "col_left", "Face Images", None) >>
     \o [i \in 1..stop |-> GalleryItem(voter_data, i)]

FaceImages(voter_data) ==
  << E("subheader", "col_left", "Face Images", None) >>
  \o [i \in 1..Len(voter_data) |-> GalleryItem(voter_data, i)]

(* The detail view of the selected voter (lines 95-136). *)
VoterDetails(df, voter) ==
  LET voter_data == WhereEq(df, "voter_id", voter)
  IN << E("subheader", "col_left", "Details for Voter ID: ", voter),
        E("write", "col_left", "", None),
        E("dataframe", "col_left", "display_df", display_df(voter_data)) >>
     \o FaceImages(voter_data)

(* The values the two select boxes return.  cat_choice and voter_choice are
   what the user last chose in each (None when untouched).  The voter select
   box is only reached when the category is truthy. *)
Selections(cats, cat_choice, voter_choice) ==
  LET active == active_categories(cats)
      stype == selectbox(Keys(active), cat_choice)
      voter_list == IF TruthyStr(stype) THEN Lookup(active, stype[1]) ELSE <<>>
  IN [options |-> Keys(active),
      suspicious_type |-> stype,
      voter_options |-> sorted(voter_list),
      selected_voter |-> IF TruthyStr(stype)
                         THEN selectbox(sorted(voter_list), voter_choice)
                         ELSE None]

(* The left column. *)
LeftColumn(df, sel) ==
  << E("subheader", "col_left", "Suspicious Voter Categories", None),
     E("write", "col_left", "", None),
     E("selectbox", "col_left", "Select a suspicious activity type",
       [options |-> sel.options, value |-> sel.suspicious_type]) >>
  \o (IF TruthyStr(sel.suspicious_type)
      THEN << E("write", "col_left", "", None),
              E("selectbox", "col_left", "Select a voter ID",
                [options |-> sel.voter_options, value |-> sel.selected_voter]) >>
           \o (IF Truthy(sel.selected_voter)
               THEN VoterDetails(df, sel.selected_voter[1])
               ELSE <<>>)
      ELSE <<>>)

(***************************************************************************)
(* Right column: fraud type distribution and constituency-wise analysis    *)
(* (lines 138-199).                                                        *)
(***************************************************************************)
(* df['fraud_type'].value_counts(): one (Fraud Type, Count) row per fraud
   type that occurs.  The order of equal counts is left to pandas, so the
   rows are kept as a set. *)
fraud_counts(df) ==
  {[Fraud_Type |-> f, Count |-> Len(WhereEq(df, "fraud_type", f))] :
     f \in Range(Column(df, "fraud_type"))}

(* groupby('voting_constituency')['voter_id'].nunique().reset_index(): one
   row per constituency that occurs, in ascending order of the key. *)
plot_summary(suspicious_df) ==
  LET keys == SortedSubset(ConstituencyOrder, Range(Column(suspicious_df, "voting_constituency")))
  IN [i \in 1..Len(keys) |->
        [Constituency |-> keys[i],
         Suspicious_Voters |->
           Cardinality(Range(Column(WhereEq(suspicious_df, "voting_constituency", keys[i]), "voter_id")))]]

(* The (constituency, fraud type) pairs in ascending order. *)
PairOrder ==
  [k \in 1..(Len(ConstituencyOrder) * Len(FraudTypeOrder)) |->
     <<ConstituencyOrder[((k - 1) \div Len(FraudTypeOrder)) + 1],
       FraudTypeOrder[((k - 1) % Len(FraudTypeOrder)) + 1]>>]

(* detailed_summary counting the distinct voters of a pair instead of its rows. *)
detailed_summary_nunique(suspicious_df) ==
  LET Group(pr) == WhereEq(WhereEq(suspicious_df, "voting_constituency", pr[1]), "fraud_type", pr[2])
      Occurs(pr) == Len(Group(pr)) > 0
      keys == SelectSeq(PairOrder, Occurs)
  IN [i \in 1..Len(keys) |->
        [Constituency |-> keys[i][1], Fraud_Type |-> keys[i][2],
         Count |-> Cardinality(Range(Column(Group(keys[i]), "voter_id")))]]

(* groupby(['voting_constituency', 'fraud_type']).size().reset_index(): one
   row per pair that occurs, with the number of its rows. *)
detailed_summary(suspicious_df) ==
  LET Size(pr) == Len(WhereEq(WhereEq(suspicious_df, "voting_constituency", pr[1]), "fraud_type", pr[2]))
      Occurs(pr) == Size(pr) > 0
      keys == SelectSeq(PairOrder, Occurs)
  IN [i \in 1..Len(keys) |->
        [Constituency |-> keys[i][1], Fraud_Type |-> keys[i][2], Count |-> Size(keys[i])]]

(* DataFrame.pivot(index='Constituency', columns='Fraud Type', values='Count'):
   a cell holds the count of its pair, or is missing (None) when the pair has
   no row. *)
pivot(detailed) ==
  LET index == SortedSubset(ConstituencyOrder, Range(Column(detailed, "Constituency")))
      columns == SortedSubset(FraudTypeOrder, Range(Column(detailed, "Fraud_Type")))
      Cell(c, f) ==
        LET Is(d) == d.Constituency = c /\ d.Fraud_Type = f
            hit == SelectSeq(detailed, Is)
        IN IF hit = <<>> THEN None ELSE Some(hit[1].Count)
  IN [index |-> index, columns |-> columns,
      cells |-> [pr \in Range(index) \X Range(columns) |-> Cell(pr[1], pr[2])]]

(* .fillna(0).astype(int) *)
fillna0(pv) ==
  [pv EXCEPT !.cells = [pr \in DOMAIN pv.cells |->
                          IF pv.cells[pr] = None THEN 0 ELSE pv.cells[pr][1]]]

pivot_table(suspicious_df) == fillna0(pivot(detailed_summary(suspicious_df)))

ConstituencyAnalysis(df) ==
  LET suspicious_df == WhereEq(df, "is_suspicious", TRUE)
  IN IF Len(suspicious_df) > 0
     THEN << E("plotly_chart", "col_right", "Suspicious Voters by Constituency",
               plot_summary(suspicious_df)),
             E("subheader", "col_right", "Detailed Constituency Breakdown", None),
             E("dataframe", "col_right", "pivot_table", pivot_table(suspicious_df)) >>
     ELSE << E("info", "col_right", "No suspicious votes detected in the dataset.", None) >>

RightColumn(df) ==
  << E("subheader", "col_right", "Fraud Type Distribution", None),
     E("plotly_chart", "col_right", "Distribution of Vote Types", fraud_counts(df)),
     E("subheader", "col_right", "Constituency-wise Suspicious Votes", None) >>
  \o ConstituencyAnalysis(df)

(***************************************************************************)
(* Advanced analytics tabs (lines 201-246).                                *)
(***************************************************************************)
IdentityTheftTab(df) ==
  LET identity_theft == WhereEq(df, "fraud_type", "same_constituency_identity_theft")
      theft_summary ==
        [i \in 1..Len(identity_theft) |->
           [Actual_Voter |-> identity_theft[i].voter_id,
            Claimed_Voter_ID |-> identity_theft[i].claimed_voter_id,
            Constituency |-> identity_theft[i].voting_constituency]]
  IN IF Len(identity_theft) > 0
     THEN << E("write", "tab1", "Total Identity Theft Cases: ", Len(identity_theft)),
             E("dataframe", "tab1", "theft_summary", theft_summary) >>
     ELSE << E("info", "tab1", "No identity theft cases detected.", None) >>

CrossConstituencyTab(df) ==
  LET cross_const == WhereEq(df, "fraud_type", "cross_constituency_voting")
      cross_summary ==
        [i \in 1..Len(cross_const) |->
           [voter_id |-> cross_const[i].voter_id,
            registered_constituency |-> cross_const[i].registered_constituency,
            voting_constituency |-> cross_const[i].voting_constituency]]
  IN IF Len(cross_const) > 0
     THEN << E("write", "tab2", "Total Cross-Constituency Cases: ", Len(cross_const)),
             E("dataframe", "tab2", "cross_summary", cross_summary) >>
     ELSE << E("info", "tab2", "No cross-constituency voting detected.", None) >>

(* double_summary reading only the voter's double_voting rows. *)
double_summary_own_rows(df, double_voters) ==
  [i \in 1..Len(double_voters) |->
     LET voter == double_voters[i]
         rows == WhereEq(WhereEq(df, "fraud_type", "double_voting"), "voter_id", voter)
         names == unique(Column(rows, "voting_constituency"))
     IN [Voter_ID |-> voter,
         Number_of_Votes |-> Len(rows),
         Constituencies |-> join(", ", [k \in 1..Len(names) |-> <<names[k]>>])]]

(* The per-voter summary built by the loop over double_voters. *)
double_summary(df, double_voters) ==
  [i \in 1..Len(double_voters) |->
     LET voter == double_voters[i]
         rows == WhereEq(df, "voter_id", voter)
         names == unique(Column(rows, "voting_constituency"))
     IN [Voter_ID |-> voter,
         Number_of_Votes |-> Len(rows),
         Constituencies |-> join(", ", [k \in 1..Len(names) |-> <<names[k]>>])]]

DoubleVotingTab(df) ==
  LET double_voters == unique(Column(WhereEq(df, "fraud_type", "double_voting"), "voter_id"))
  IN IF Len(double_voters) > 0
     THEN << E("write", "tab3", "Total Double Voting Cases: ", Len(double_voters)),
             E("dataframe", "tab3", "double_summary", double_summary(df, double_voters)) >>
     ELSE << E("info", "tab3", "No double voting detected.", None) >>

AdvancedAnalytics(df) ==
  << E("markdown", "main", "---", None),
     E("subheader", "main", "Advanced Analytics", None),
     E("tabs", "main", "tabs",
       <<"Identity Theft Cases", "Cross-Constituency Fraud", "Double Voting">>) >>
  \o IdentityTheftTab(df) \o CrossConstituencyTab(df) \o DoubleVotingTab(df)
  \o << E("markdown", "main", "---", None),
        E("caption", "main", "Voter Fraud Detection System | Powered by FaceNet & Streamlit", None) >>

(***************************************************************************)
(* One run of the script.  The result holds the page rendered, the         *)
(* exception that ended the run (None when it reached the last line) and   *)
(* the values the run left in fraud_categories, suspicious_type and        *)
(* selected_voter (None when the run did not assign them).                 *)
(***************************************************************************)
Script(file, cat_choice, voter_choice) ==
  IF file = None
  THEN [page |-> UploadSection(file) \o UploadPrompt, exception |-> None,
        fraud_categories |-> None, suspicious_type |-> None, selected_voter |-> None]
  ELSE
    LET df == read_csv(file)
        cats == DetectFraudCategories(df)
    IN IF FraudRateRaises(df)
       THEN [page |-> UploadSection(file) \o CountMetrics(df),
             exception |-> Some("ZeroDivisionError"),
             fraud_categories |-> cats, suspicious_type |-> None, selected_voter |-> None]
       ELSE
         LET sel == Selections(cats, cat_choice, voter_choice)
         IN [page |-> UploadSection(file) \o CountMetrics(df) \o FraudRateMetric(df)
                      \o LeftColumn(df, sel) \o RightColumn(df)
                      \o AdvancedAnalytics(df),
             exception |-> None,
             fraud_categories |-> cats,
             suspicious_type |-> sel.suspicious_type,
             selected_voter |-> sel.selected_voter]

(* The elements of a page of the given kind and label, in page order. *)
Elems(pg, kind, label) ==
  LET Is(e) == e.kind = kind /\ e.label = label IN SelectSeq(pg, Is)

(* The script runs with the given file and select box choices. *)
Run(file, cat_choice, voter_choice) ==
  \E r \in {Script(file, cat_choice, voter_choice)} :
     /\ uploaded_file' = file
     /\ fraud_categories' = r.fraud_categories
     /\ suspicious_type' = r.suspicious_type
     /\ selected_voter' = r.selected_voter
     /\ page' = r.page
     /\ exception' = r.exception

(* The option list of a select box of the current page, empty when the page
   has no such box. *)
OptionList(label) ==
  LET boxes == Elems(page, "selectbox", label)
  IN IF boxes = <<>> THEN <<>> ELSE boxes[1].data.options

(* The options a select box of the current page offers. *)
Offered(label) == Range(OptionList(label))

Init ==
  LET r == Script(None, None, None)
  IN /\ uploaded_file = None
     /\ fraud_categories = r.fraud_categories
     /\ suspicious_type = r.suspicious_type
     /\ selected_voter = r.selected_voter
     /\ page = r.page
     /\ exception = r.exception

(* The user uploads a CSV file; both select boxes start untouched.  Uploading
   over a loaded file reaches the states of RemoveFile followed by Upload. *)
Upload ==
  /\ uploaded_file = None
  /\ \E t \in Tables : Run(Some(t), None, None)

(* The user removes the uploaded file. *)
RemoveFile ==
  /\ uploaded_file # None
  /\ Run(None, None, None)

(* The user picks another category.  A select box keeps its value over a
   rerun only while its label and options are unchanged, so the voter select
   box keeps the chosen voter when the new category has the same voter list
   and starts untouched otherwise. *)
SelectCategory ==
  \E c \in Offered("Select a suspicious activity type") :
    /\ Some(c) # suspicious_type
    /\ LET same == Selections(fraud_categories, Some(c), None).voter_options
                     = OptionList("Select a voter ID")
       IN Run(uploaded_file, Some(c), IF same THEN selected_voter ELSE None)

(* The user picks another voter ID. *)
SelectVoter ==
  \E v \in Offered("Select a voter ID") :
    /\ Some(v) # selected_voter
    /\ Run(uploaded_file, suspicious_type, Some(v))

(* Any other interaction reruns the script with the file and both select
   boxes unchanged. *)
Rerun ==
  /\ uploaded_file # None
  /\ Run(uploaded_file, suspicious_type, selected_voter)

Next == Upload \/ RemoveFile \/ SelectCategory \/ SelectVoter \/ Rerun

Spec == Init /\ [][Next]_vars

(***************************************************************************)
(* Vocabulary of the properties below, stated on the uploaded table and    *)
(* on the page the last run rendered.                                      *)
(***************************************************************************)
Loaded == uploaded_file # None

(* The rows of the uploaded table. *)
Rows == IF Loaded THEN uploaded_file[1] ELSE <<>>

RowsWhere(P(_)) == {i \in DOMAIN Rows : P(Rows[i])}

FraudLabels == {"same_constituency_identity_theft", "cross_constituency_voting", "double_voting"}

(* The positions of the page that hold an element of a kind and label. *)
Positions(kind, label) ==
  {i \in DOMAIN page : page[i].kind = kind /\ page[i].label = label}

Shown(kind, label) == Positions(kind, label) # {}

(* The data of the only element of a kind and label. *)
DataOf(kind, label) == page[CHOOSE i \in Positions(kind, label) : TRUE].data

(* The run reached the last line of the script. *)
ReachedEnd ==
  /\ exception = None
  /\ page # <<>>
  /\ page[Len(page)].kind = "caption"

(* C1: for every uploaded table, a table of zero rows included, the run that
   renders the Fraud Rate metric raises no unhandled error and reaches the
   rest of the page. *)
C1_FraudRateGuarded == Loaded => ReachedEnd

(* The voter IDs of a category of the dict the run computed. *)
CategorySet(key) == Range(Lookup(fraud_categories, key))

ThreeCategories ==
  CategorySet("Same Constituency Identity Theft")
    \cup CategorySet("Cross-Constituency Voting")
    \cup CategorySet("Double Voting")

AllSuspicious == CategorySet("All Suspicious Voters")

(* Every row that carries one of the three fraud labels is flagged. *)
LabelsFlagged ==
  \A i \in DOMAIN Rows : Rows[i].fraud_type \in FraudLabels => Rows[i].is_suspicious

(* Some flagged row carries a fraud type other than the three labels. *)
OtherSuspicious ==
  \E i \in DOMAIN Rows : Rows[i].is_suspicious /\ Rows[i].fraud_type \notin FraudLabels

(* C2 as claimed: for all tables the three categories' voter IDs are a subset
   of "All Suspicious Voters", with equality exactly when no suspicious row
   carries a fraud type other than the three. *)
C2_SubsetForAllTables ==
  Loaded => /\ ThreeCategories \subseteq AllSuspicious
            /\ (ThreeCategories = AllSuspicious) <=> ~OtherSuspicious

(* C2 amended: when every row that carries one of the three labels is
   flagged, the three categories' voter IDs are a subset of "All Suspicious
   Voters"; when no suspicious row carries another fraud type, "All
   Suspicious Voters" is a subset of the three categories' voter IDs. *)
C2_SubsetWhenLabelsFlagged ==
  Loaded => /\ LabelsFlagged => ThreeCategories \subseteq AllSuspicious
            /\ ~OtherSuspicious => AllSuspicious \subseteq ThreeCategories

C2_Witness ==
  /\ Loaded /\ LabelsFlagged /\ OtherSuspicious
  /\ ThreeCategories # {}
  /\ ThreeCategories # AllSuspicious

RECURSIVE SumCells(_, _)
SumCells(cells, S) ==
  IF S = {} THEN 0
  ELSE LET x == CHOOSE y \in S : TRUE IN cells[x] + SumCells(cells, S \ {x})

IsFlagged(r) == r.is_suspicious

(* C3: for every table with at least one suspicious row the pivot table is
   rendered and the sum of its cells equals the number of flagged rows, which
   is the value of the "Suspicious Votes" metric. *)
C3_PivotSumIsSuspiciousCount ==
  Loaded /\ RowsWhere(IsFlagged) # {} =>
    /\ Shown("dataframe", "pivot_table")
    /\ LET pv == DataOf("dataframe", "pivot_table")
       IN /\ SumCells(pv.cells, DOMAIN pv.cells) = Cardinality(RowsWhere(IsFlagged))
          /\ SumCells(pv.cells, DOMAIN pv.cells) = DataOf("metric", "Suspicious Votes")

(* A pivot table of two flagged rows with an absent combination. *)
C3_Witness ==
  /\ Loaded /\ Shown("dataframe", "pivot_table")
  /\ LET pv == DataOf("dataframe", "pivot_table")
     IN /\ \E pr \in DOMAIN pv.cells : pv.cells[pr] = 0
        /\ \E pr \in DOMAIN pv.cells : pv.cells[pr] = 1
        /\ Cardinality(RowsWhere(IsFlagged)) = 2

(* Some row of the table belongs to the category. *)
HasMember(key) ==
  \E i \in DOMAIN Rows :
    CASE key = "Same Constituency Identity Theft" ->
           Rows[i].fraud_type = "same_constituency_identity_theft"
      [] key = "Cross-Constituency Voting" ->
           Rows[i].fraud_type = "cross_constituency_voting"
      [] key = "Double Voting" -> Rows[i].fraud_type = "double_voting"
      [] key = "All Suspicious Voters" -> Rows[i].is_suspicious

CategoryNames ==
  {"Same Constituency Identity Theft", "Cross-Constituency Voting", "Double Voting",
   "All Suspicious Voters"}

(* C4: the category list offered to the user holds exactly the categories
   that have at least one member. *)
C4_OnlyNonEmptyCategoriesOffered ==
  Loaded => Offered("Select a suspicious activity type")
              = {k \in CategoryNames : HasMember(k)}

C4_Witness ==
  /\ Loaded
  /\ "Double Voting" \in Offered("Select a suspicious activity type")
  /\ "Cross-Constituency Voting" \notin Offered("Select a suspicious activity type")
  /\ ~HasMember("Cross-Constituency Voting")

(* The entries of the double-voting summary the page shows. *)
DoubleEntries ==
  IF Shown("dataframe", "double_summary") THEN DataOf("dataframe", "double_summary") ELSE <<>>

(* The names a joined list holds: its pieces at the odd positions, the even
   positions holding the separator. *)
JoinedNames(text) == {text[k] : k \in {j \in DOMAIN text : j % 2 = 1}}

VotersOfTable == {Rows[i].voter_id : i \in DOMAIN Rows}

RowsOfVoter(v) == {i \in DOMAIN Rows : Rows[i].voter_id = v}

IsDoubleVoter(v) == \E i \in RowsOfVoter(v) : Rows[i].fraud_type = "double_voting"

(* C5: every voter with a double_voting row has exactly one entry in the
   double-voting summary, its Number of Votes the count of all the voter's
   rows and its Constituencies, as a set, the voter's distinct voting
   constituencies; the other voters have no entry. *)
C5_DoubleVotingSummary ==
  Loaded /\ exception = None =>
    \A v \in VotersOfTable :
      LET mine == {k \in DOMAIN DoubleEntries : DoubleEntries[k].Voter_ID = v}
      IN IF IsDoubleVoter(v)
         THEN /\ Cardinality(mine) = 1
              /\ \A k \in mine :
                   /\ DoubleEntries[k].Number_of_Votes = Cardinality(RowsOfVoter(v))
                   /\ JoinedNames(DoubleEntries[k].Constituencies)
                        = {Rows[i].voting_constituency : i \in RowsOfVoter(v)}
         ELSE mine = {}

(* A double voter with a second row of another fraud type in another
   constituency, next to a voter without an entry. *)
C5_Witness ==
  /\ Loaded /\ exception = None
  /\ \E v \in VotersOfTable :
       /\ IsDoubleVoter(v)
       /\ \E i \in RowsOfVoter(v) : Rows[i].fraud_type # "double_voting"
       /\ Cardinality({Rows[i].voting_constituency : i \in RowsOfVoter(v)}) = 2
  /\ Len(DoubleEntries) = 1

(* The rows of the detail table the page shows. *)
DetailShown == Shown("dataframe", "display_df")

DetailTable == IF DetailShown THEN DataOf("dataframe", "display_df") ELSE <<>>

(* The reason the specification gives for a displayed row. *)
ExpectedReason(d) ==
  CASE d.fraud_type = "same_constituency_identity_theft" ->
         <<"Identity theft: Claims to be ", str(d.claimed_voter_id)>>
    [] d.fraud_type = "cross_constituency_voting" ->
         <<"Voting in wrong constituency: Registered in ", d.registered_constituency,
           ", voting in ", d.voting_constituency>>
    [] d.fraud_type = "double_voting" -> <<"Multiple voting attempts detected">>
    [] OTHER -> <<"Legitimate">>

(* C6: the reason shown for a row is a function of the row: a row with one of
   the three fraud labels shows that label's clause, any other row, a
   legitimate one in particular, shows exactly "Legitimate", and rows with the
   same cells show the same reason. *)
C6_ReasonBySpecification ==
  /\ \A k \in DOMAIN DetailTable : DetailTable[k].fraud_reason = ExpectedReason(DetailTable[k])
  /\ \A k, m \in DOMAIN DetailTable :
       [DetailTable[k] EXCEPT !.fraud_reason = <<>>] = [DetailTable[m] EXCEPT !.fraud_reason = <<>>]
         => DetailTable[k].fraud_reason = DetailTable[m].fraud_reason

(* A detail table with a cross-constituency row registered and voting in
   different constituencies and a row no clause applies to. *)
C6_Witness ==
  /\ \E k \in DOMAIN DetailTable :
       /\ DetailTable[k].fraud_type = "cross_constituency_voting"
       /\ DetailTable[k].registered_constituency # DetailTable[k].voting_constituency
  /\ \E k \in DOMAIN DetailTable :
       /\ DetailTable[k].fraud_type \in {"legitimate", "unknown"}
       /\ DetailTable[k].fraud_reason = <<"Legitimate">>

(* The gallery of the page: its images and error indicators in page order. *)
Gallery ==
  LET Is(e) == e.kind \in {"image", "error"} IN SelectSeq(page, Is)

(* The records of the selected voter, in table order. *)
SelectedRecords ==
  IF selected_voter = None THEN <<>>
  ELSE LET Mine(r) == r.voter_id = selected_voter[1] IN SelectSeq(Rows, Mine)

(* C7: when the gallery of a selected voter is rendered, each record of the
   voter has, in record order, its image or, when the image cannot be loaded,
   its error indicator, and the run goes on to the charts, the constituency
   section and the tabs, whichever images fail. *)
C7_GalleryToleratesFailures ==
  Shown("subheader", "Face Images") =>
    /\ Len(Gallery) = Len(SelectedRecords)
    /\ \A i \in DOMAIN Gallery :
         IF SelectedRecords[i].image_path \in Unreadable
         THEN /\ Gallery[i].kind = "error"
              /\ Gallery[i].data = SelectedRecords[i].image_path
         ELSE /\ Gallery[i].kind = "image"
              /\ Gallery[i].data = [path |-> SelectedRecords[i].image_path, caption |-> i]
    /\ ReachedEnd
    /\ \A g \in Positions("subheader", "Face Images") \cup Positions("error", "Cannot load image: ") :
         /\ \E j \in Positions("plotly_chart", "Distribution of Vote Types") : g < j
         /\ \E j \in Positions("subheader", "Constituency-wise Suspicious Votes") : g < j
         /\ \E j \in Positions("tabs", "tabs") : g < j

(* A gallery of two records whose first image fails and whose second loads. *)
C7_Witness ==
  /\ Len(Gallery) = 2
  /\ Gallery[1].kind = "error"
  /\ Gallery[2].kind = "image"

(* The view a page shows. *)
ViewShown ==
  IF Shown("info", "Please upload a CSV file to begin analysis") THEN "no_file"
  ELSE IF Shown("subheader", "Details for Voter ID: ") THEN "detail"
  ELSE "awaiting"

(* The view the current values of the upload control and of the two select
   boxes stand for; a voter ID of 0 counts as no voter selected. *)
ViewOf(file, category, voter) ==
  IF file = None THEN "no_file"
  ELSE IF category # None /\ voter # None /\ voter # <<0>> THEN "detail"
  ELSE "awaiting"

ComputedKinds == {"success", "metric", "selectbox", "dataframe", "plotly_chart",
                  "image", "error", "tabs", "caption"}

(* C8: with no file uploaded the page is the upload section and the prompt,
   and nothing is ingested, categorized, aggregated or detailed; the view is
   a function of the current values of the upload control and the two
   selections. *)
C8_ViewFromCurrentValues ==
  /\ ~Loaded =>
       /\ Shown("info", "Please upload a CSV file to begin analysis")
       /\ \A i \in DOMAIN page : page[i].kind \notin ComputedKinds
       /\ fraud_categories = None /\ suspicious_type = None /\ selected_voter = None
       /\ exception = None
  /\ ViewShown = ViewOf(uploaded_file, suspicious_type, selected_voter)

C8_Witness ==
  /\ ~Loaded
  /\ page = UploadSection(None) \o UploadPrompt
  /\ ViewShown = "no_file"

IsSortedNoDup(s) == \A i, j \in DOMAIN s : i < j => s[i] < s[j]

(* C9: the voter list of the selected category is offered sorted ascending
   without duplicates, and whichever voter ID of it is selected, the detail
   view is shown and its table holds exactly the rows of the whole table with
   that voter ID. *)
C9_EveryListedVoterShowsDetails ==
  Shown("selectbox", "Select a voter ID") =>
    LET box == DataOf("selectbox", "Select a voter ID")
    IN /\ IsSortedNoDup(box.options)
       /\ Range(box.options) = CategorySet(suspicious_type[1])
       /\ box.value # None =>
            /\ DetailShown
            /\ DetailTable = [i \in 1..Len(SelectedRecords) |->
                                [image_path |-> SelectedRecords[i].image_path,
                                 registered_constituency |-> SelectedRecords[i].registered_constituency,
                                 voting_constituency |-> SelectedRecords[i].voting_constituency,
                                 claimed_voter_id |-> SelectedRecords[i].claimed_voter_id,
                                 fraud_type |-> SelectedRecords[i].fraud_type,
                                 fraud_reason |-> DetailTable[i].fraud_reason]]

(* C9 for the voter IDs other than 0. *)
C9_NonZeroVoterShowsDetails ==
  selected_voter # <<0>> => C9_EveryListedVoterShowsDetails

IsTheft(r) == r.fraud_type = "same_constituency_identity_theft"
IsCross(r) == r.fraud_type = "cross_constituency_voting"
IsDouble(r) == r.fraud_type = "double_voting"

(* A section shows its table or chart, with at least one row, exactly when
   its subset is not empty, and its message exactly when it is empty. *)
SectionOk(subset, tables, message) ==
  IF subset = {}
  THEN /\ Shown("info", message)
       /\ \A t \in tables : ~Shown(t[1], t[2])
  ELSE /\ ~Shown("info", message)
       /\ \A t \in tables : Shown(t[1], t[2]) /\ Len(DataOf(t[1], t[2])) >= 1

(* C10: whenever the subset behind a section is empty the section shows its
   empty-state message and no table or chart, and a table or chart that is
   shown has at least one row. *)
C10_EmptyStateMessages ==
  Loaded =>
    /\ SectionOk(RowsWhere(IsFlagged),
                 {<<"plotly_chart", "Suspicious Voters by Constituency">>},
                 "No suspicious votes detected in the dataset.")
    /\ RowsWhere(IsFlagged) = {} <=> ~Shown("dataframe", "pivot_table")
    /\ Shown("dataframe", "pivot_table") =>
         Len(DataOf("dataframe", "pivot_table").index) >= 1
    /\ SectionOk(RowsWhere(IsTheft), {<<"dataframe", "theft_summary">>},
                 "No identity theft cases detected.")
    /\ SectionOk(RowsWhere(IsCross), {<<"dataframe", "cross_summary">>},
                 "No cross-constituency voting detected.")
    /\ SectionOk(RowsWhere(IsDouble), {<<"dataframe", "double_summary">>},
                 "No double voting detected.")

(* C10 for the runs that reach the sections. *)
C10_WhenRunCompletes == exception = None => C10_EmptyStateMessages

====
